---- MODULE Spec2Model ----
(***************************************************************************)
(* Moderation bot (heclates/tg_bot): the warning-escalation cycle          *)
(* (ModerationService), the forbidden-word cache (BadWordsCache) and the   *)
(* store client (Database), as state machines over the awaits of the       *)
(* asyncio handlers.  A text is a sequence of characters: an ASCII          *)
(* character is the one-character string, any other character the string   *)
(* "U+" followed by the four hexadecimal digits of its code point          *)
(* ("U+043A" is the Cyrillic small letter ka).  The alphabet of the model   *)
(* is ASCII, Latin-1 and the Cyrillic letters U+0400..U+045F, plus every    *)
(* white-space character of Unicode.                                        *)
(***************************************************************************)
EXTENDS Integers, Sequences, FiniteSets, TLC

\* ---------------------------------------------------------------- bounds
\* Number of handler tasks the dispatcher may have in flight at once.
NumTasks == 2
\* Number of injected failures (store or Telegram calls raising) in one run.
MaxFaults == 1
\* Number of concurrent violation cycles of one user in the race scenario.
NumRacers == 3
\* Number of concurrent handlers where reloads run next to readers.
NumSwap == 3

\* ------------------------------------------------------- configuration
\* config.MAX_WARNINGS (default 3, validated >= 1)
MAX_WARNINGS == 3
\* the administrator ids given in the environment (ADMIN_IDS=...)
EnvAdminIds == {1}
\* mutant: the ids are parsed into values no user id equals
ADMIN_IDS_NoneParsed == {}
\* config.ADMIN_IDS, the parsed setting
ADMIN_IDS == EnvAdminIds
\* config.get_admins()
get_admins == ADMIN_IDS
\* the user ids that send messages
Users == {1, 2}
\* the ids of users with is_bot set (other bots of the chat)
BotIds == {3}
\* no user: message.reply_to_message is None (target_user = None)
NoUser == 0

Tasks == 1..NumTasks
None == "None"

\* ---------------------------------------------------------------- texts
LowerLetters ==
    {"a","b","c","d","e","f","g","h","i","j","k","l","m",
     "n","o","p","q","r","s","t","u","v","w","x","y","z"}
UpperLetters ==
    {"A","B","C","D","E","F","G","H","I","J","K","L","M",
     "N","O","P","Q","R","S","T","U","V","W","X","Y","Z"}
Digits == {"0","1","2","3","4","5","6","7","8","9"}

UpperToLower ==
    [c \in UpperLetters |->
       CASE c = "A" -> "a" [] c = "B" -> "b" [] c = "C" -> "c" [] c = "D" -> "d"
         [] c = "E" -> "e" [] c = "F" -> "f" [] c = "G" -> "g" [] c = "H" -> "h"
         [] c = "I" -> "i" [] c = "J" -> "j" [] c = "K" -> "k" [] c = "L" -> "l"
         [] c = "M" -> "m" [] c = "N" -> "n" [] c = "O" -> "o" [] c = "P" -> "p"
         [] c = "Q" -> "q" [] c = "R" -> "r" [] c = "S" -> "s" [] c = "T" -> "t"
         [] c = "U" -> "u" [] c = "V" -> "v" [] c = "W" -> "w" [] c = "X" -> "x"
         [] c = "Y" -> "y" [] c = "Z" -> "z"]

\* the cased characters outside ASCII with their str.lower(): Latin-1
\* U+00C0..U+00DE and Cyrillic U+0400..U+042F
CasePairs ==
    {<<"U+00C0", "U+00E0">>, <<"U+00C1", "U+00E1">>, <<"U+00C2", "U+00E2">>,
     <<"U+00C3", "U+00E3">>, <<"U+00C4", "U+00E4">>, <<"U+00C5", "U+00E5">>,
     <<"U+00C6", "U+00E6">>, <<"U+00C7", "U+00E7">>, <<"U+00C8", "U+00E8">>,
     <<"U+00C9", "U+00E9">>, <<"U+00CA", "U+00EA">>, <<"U+00CB", "U+00EB">>,
     <<"U+00CC", "U+00EC">>, <<"U+00CD", "U+00ED">>, <<"U+00CE", "U+00EE">>,
     <<"U+00CF", "U+00EF">>, <<"U+00D0", "U+00F0">>, <<"U+00D1", "U+00F1">>,
     <<"U+00D2", "U+00F2">>, <<"U+00D3", "U+00F3">>, <<"U+00D4", "U+00F4">>,
     <<"U+00D5", "U+00F5">>, <<"U+00D6", "U+00F6">>, <<"U+00D8", "U+00F8">>,
     <<"U+00D9", "U+00F9">>, <<"U+00DA", "U+00FA">>, <<"U+00DB", "U+00FB">>,
     <<"U+00DC", "U+00FC">>, <<"U+00DD", "U+00FD">>, <<"U+00DE", "U+00FE">>,
     <<"U+0400", "U+0450">>, <<"U+0401", "U+0451">>, <<"U+0402", "U+0452">>,
     <<"U+0403", "U+0453">>, <<"U+0404", "U+0454">>, <<"U+0405", "U+0455">>,
     <<"U+0406", "U+0456">>, <<"U+0407", "U+0457">>, <<"U+0408", "U+0458">>,
     <<"U+0409", "U+0459">>, <<"U+040A", "U+045A">>, <<"U+040B", "U+045B">>,
     <<"U+040C", "U+045C">>, <<"U+040D", "U+045D">>, <<"U+040E", "U+045E">>,
     <<"U+040F", "U+045F">>, <<"U+0410", "U+0430">>, <<"U+0411", "U+0431">>,
     <<"U+0412", "U+0432">>, <<"U+0413", "U+0433">>, <<"U+0414", "U+0434">>,
     <<"U+0415", "U+0435">>, <<"U+0416", "U+0436">>, <<"U+0417", "U+0437">>,
     <<"U+0418", "U+0438">>, <<"U+0419", "U+0439">>, <<"U+041A", "U+043A">>,
     <<"U+041B", "U+043B">>, <<"U+041C", "U+043C">>, <<"U+041D", "U+043D">>,
     <<"U+041E", "U+043E">>, <<"U+041F", "U+043F">>, <<"U+0420", "U+0440">>,
     <<"U+0421", "U+0441">>, <<"U+0422", "U+0442">>, <<"U+0423", "U+0443">>,
     <<"U+0424", "U+0444">>, <<"U+0425", "U+0445">>, <<"U+0426", "U+0446">>,
     <<"U+0427", "U+0447">>, <<"U+0428", "U+0448">>, <<"U+0429", "U+0449">>,
     <<"U+042A", "U+044A">>, <<"U+042B", "U+044B">>, <<"U+042C", "U+044C">>,
     <<"U+042D", "U+044D">>, <<"U+042E", "U+044E">>, <<"U+042F", "U+044F">>}
WideUpper == {p[1] : p \in CasePairs}
WideToLower == [c \in WideUpper |-> (CHOOSE p \in CasePairs : p[1] = c)[2]]

\* str.lower() of one character
LowerChar(c) ==
    IF c \in UpperLetters THEN UpperToLower[c]
    ELSE IF c \in WideUpper THEN WideToLower[c]
    ELSE c

\* str.lower()
Lower(text) == [i \in 1..Len(text) |-> LowerChar(text[i])]

\* the white space outside ASCII: str.isspace() of U+0085, U+00A0, U+1680,
\* U+2000..U+200A, U+2028, U+2029, U+202F, U+205F, U+3000
WideSpace ==
    {"U+0085", "U+00A0", "U+1680", "U+2000", "U+2001", "U+2002", "U+2003",
     "U+2004", "U+2005", "U+2006", "U+2007", "U+2008", "U+2009", "U+200A",
     "U+2028", "U+2029", "U+202F", "U+205F", "U+3000"}

\* the characters str.strip() and str.split() take for white space: blank,
\* \t, \n, \r, \f, the controls 0x0B and 0x1C..0x1F, and WideSpace
Whitespace ==
    {" ", "\t", "\n", "\r", "\f", "", "", "", "", ""} \cup WideSpace

\* str.strip(): leading and trailing white space removed
RECURSIVE LStrip(_)
LStrip(text) ==
    IF text # <<>> /\ Head(text) \in Whitespace THEN LStrip(Tail(text)) ELSE text
RECURSIVE RStrip(_)
RStrip(text) ==
    IF text # <<>> /\ text[Len(text)] \in Whitespace
    THEN RStrip(SubSeq(text, 1, Len(text) - 1)) ELSE text
Strip(text) == RStrip(LStrip(text))

\* the text up to its first white space: text.split(maxsplit=1)[0]
RECURSIVE UpToBlank(_)
UpToBlank(text) ==
    IF text = <<>> \/ Head(text) \in Whitespace THEN <<>>
    ELSE <<Head(text)>> \o UpToBlank(Tail(text))
FirstToken(text) == UpToBlank(LStrip(text))

\* the pattern occurs in the text at position i
OccursAt(pat, text, i) ==
    /\ i >= 1
    /\ i + Len(pat) - 1 <= Len(text)
    /\ \A k \in 1..Len(pat) : text[i + k - 1] = pat[k]

\* str.replace(pat, ""): every occurrence removed, left to right
RECURSIVE RemoveAllFrom(_, _, _)
RemoveAllFrom(pat, text, i) ==
    IF i > Len(text) THEN <<>>
    ELSE IF OccursAt(pat, text, i) THEN RemoveAllFrom(pat, text, i + Len(pat))
    ELSE <<text[i]>> \o RemoveAllFrom(pat, text, i + 1)
RemoveAll(pat, text) == RemoveAllFrom(pat, text, 1)

HasSub(pat, text) == \E i \in 1..(Len(text) + 1) : OccursAt(pat, text, i)

\* the characters outside ASCII that \w matches (str.isalnum()): the
\* letters and numbers of Latin-1 and the Cyrillic letters U+0400..U+045F
WideWordChars ==
    {"U+00AA", "U+00B2", "U+00B3", "U+00B5", "U+00B9", "U+00BA", "U+00BC",
     "U+00BD", "U+00BE", "U+00C0", "U+00C1", "U+00C2", "U+00C3", "U+00C4",
     "U+00C5", "U+00C6", "U+00C7", "U+00C8", "U+00C9", "U+00CA", "U+00CB",
     "U+00CC", "U+00CD", "U+00CE", "U+00CF", "U+00D0", "U+00D1", "U+00D2",
     "U+00D3", "U+00D4", "U+00D5", "U+00D6", "U+00D8", "U+00D9", "U+00DA",
     "U+00DB", "U+00DC", "U+00DD", "U+00DE", "U+00DF", "U+00E0", "U+00E1",
     "U+00E2", "U+00E3", "U+00E4", "U+00E5", "U+00E6", "U+00E7", "U+00E8",
     "U+00E9", "U+00EA", "U+00EB", "U+00EC", "U+00ED", "U+00EE", "U+00EF",
     "U+00F0", "U+00F1", "U+00F2", "U+00F3", "U+00F4", "U+00F5", "U+00F6",
     "U+00F8", "U+00F9", "U+00FA", "U+00FB", "U+00FC", "U+00FD", "U+00FE",
     "U+00FF", "U+0400", "U+0401", "U+0402", "U+0403", "U+0404", "U+0405",
     "U+0406", "U+0407", "U+0408", "U+0409", "U+040A", "U+040B", "U+040C",
     "U+040D", "U+040E", "U+040F", "U+0410", "U+0411", "U+0412", "U+0413",
     "U+0414", "U+0415", "U+0416", "U+0417", "U+0418", "U+0419", "U+041A",
     "U+041B", "U+041C", "U+041D", "U+041E", "U+041F", "U+0420", "U+0421",
     "U+0422", "U+0423", "U+0424", "U+0425", "U+0426", "U+0427", "U+0428",
     "U+0429", "U+042A", "U+042B", "U+042C", "U+042D", "U+042E", "U+042F",
     "U+0430", "U+0431", "U+0432", "U+0433", "U+0434", "U+0435", "U+0436",
     "U+0437", "U+0438", "U+0439", "U+043A", "U+043B", "U+043C", "U+043D",
     "U+043E", "U+043F", "U+0440", "U+0441", "U+0442", "U+0443", "U+0444",
     "U+0445", "U+0446", "U+0447", "U+0448", "U+0449", "U+044A", "U+044B",
     "U+044C", "U+044D", "U+044E", "U+044F", "U+0450", "U+0451", "U+0452",
     "U+0453", "U+0454", "U+0455", "U+0456", "U+0457", "U+0458", "U+0459",
     "U+045A", "U+045B", "U+045C", "U+045D", "U+045E", "U+045F"}

\* \w of the re module on str patterns: every alphanumeric character of
\* Unicode and the underscore
IsWordChar(c) ==
    c \in LowerLetters \cup UpperLetters \cup Digits \cup {"_"} \cup WideWordChars

\* \b at the gap before position p (1 <= p <= Len(text) + 1)
WordBoundary(text, p) ==
    LET before == p - 1 >= 1 /\ IsWordChar(text[p - 1])
        after  == p <= Len(text) /\ IsWordChar(text[p])
    IN  before # after

\* mutant: the word is looked for as a raw substring
WholeWordMatch_Substring(word, text) == HasSub(word, text)
\* re.search(r"\b" + re.escape(word) + r"\b", text)
WholeWordMatch(word, text) ==
    \E i \in 1..(Len(text) + 1) :
        /\ OccursAt(word, text, i)
        /\ WordBoundary(text, i)
        /\ WordBoundary(text, i + Len(word))

\* BadWordsCache.contains over a snapshot
Contains(snapshot, text) ==
    \E k \in 1..Len(snapshot) : WholeWordMatch(snapshot[k], Lower(text))

\* url_regex of check_moderation:
\*   (?:https?://|t\.me/|@|www\.|[a-zA-Z0-9-]+\.[a-z]{2,})[^\s]*
DomainChar(c) == c \in LowerLetters \cup UpperLetters \cup Digits \cup {"-"}
UrlMatch(text) ==
    \/ HasSub(<<"h","t","t","p",":","/","/">>, text)
    \/ HasSub(<<"h","t","t","p","s",":","/","/">>, text)
    \/ HasSub(<<"t",".","m","e","/">>, text)
    \/ HasSub(<<"@">>, text)
    \/ HasSub(<<"w","w","w",".">>, text)
    \/ \E j \in 2..(Len(text) - 2) :
          /\ text[j] = "."
          /\ DomainChar(text[j - 1])
          /\ text[j + 1] \in LowerLetters
          /\ text[j + 2] \in LowerLetters

\* mutant: the vocabulary is looked at before the links
Detect_WordFirst(snapshot, text) ==
    IF text = <<>> THEN None
    ELSE IF Contains(snapshot, Lower(text)) THEN "word"
    ELSE IF UrlMatch(Lower(text)) THEN "link"
    ELSE None

REASON_LINK == "link"
REASON_WORD == "word"

\* ModerationService.check_moderation: the reason of the sanction, or None
Detect(snapshot, text) ==
    IF text = <<>> THEN None
    ELSE IF UrlMatch(Lower(text)) THEN REASON_LINK
    ELSE IF Contains(snapshot, Lower(text)) THEN REASON_WORD
    ELSE None

\* ---------------------------------------------------------------- state
VARIABLES
    rows,           \* users table: the user ids that have a row
    warning_count,  \* users table: column warning_count, by user id
    bad_words,      \* bad_words table: the words, in insertion order
    words,          \* BadWordsCache._words, the snapshot
    lock,           \* BadWordsCache._lock: 0 when free, else the holding task
    waiters,        \* BadWordsCache._lock's waiters, in arrival order
    fetched,        \* reload: what db.get_bad_words() returned to the task
    count,          \* reload's return value in the task
    lastFetch,      \* history: what the latest db.get_bad_words() returned
    committed,      \* history: the words the bad_words table has ever held
    started,        \* main() has reached dp.start_polling
    mainPc,         \* main()'s position (the await it is suspended at)
    pc,             \* each task's position (the await it is suspended at)
    handler,        \* the handler the dispatcher chose for the task's message
    sender,         \* message.from_user.id of the task's message
    msgChat,        \* message.chat.type of the task's message
    msgText,        \* message.text of the task's message
    target,         \* message.reply_to_message.from_user.id, or NoUser
    reason,         \* apply_sanction's reason argument
    cur,            \* add_warning's local current_count
    warn,           \* apply_sanction's local warn_count
    acts,           \* history: what the task's cycle has done so far
    faults          \* failures injected so far

storeVars == <<rows, warning_count>>
cacheVars == <<bad_words, words, lock, waiters, fetched, count, lastFetch,
               committed, started, mainPc>>
msgVars == <<handler, sender, msgChat, msgText, target, reason>>
taskVars == <<pc, handler, sender, msgChat, msgText, target, reason, cur, warn,
              acts>>
vars == <<rows, warning_count, bad_words, words, lock, waiters, fetched, count,
          lastFetch,
          committed, started, mainPc, pc, handler, sender, msgChat, msgText, target,
          reason, cur, warn, acts, faults>>

\* ------------------------------------------------------------- messages
ChatTypes == {"group", "private"}

T_hi == <<"h","i">>
T_Spam == <<"S","p","a","m">>
T_spammer == <<"s","p","a","m","m","e","r">>
T_url == <<"g","o"," ","a",".","i","o">>
T_spam_url == <<"s","p","a","m"," ","@","x">>
Texts == {T_hi, T_Spam, T_spammer, T_url, T_spam_url}

\* the messages the environment sends while the escalation cycle is checked
Msg(u, c, x) == [from |-> u, chat |-> c, text |-> x]
Inbox ==
    {Msg(2, "group", T_url), Msg(2, "group", T_hi), Msg(2, "private", T_url),
     Msg(1, "group", T_url), Msg(1, "group", T_Spam)}

W_spam == <<"s","p","a","m">>

\* outcomes of a Telegram API call: done, TelegramBadRequest, another exception
TgOutcomes == {"ok", "bad_request", "error"}

\* filters.IsAdmin
IsAdmin(u) == u \in get_admins
\* filters.IsGroupChat
IsGroupChat(c) == c \in {"group", "supergroup"}

\* filters.IsProtectedAdmin
IsProtectedAdmin(u, c) == u \in get_admins /\ c = "private"

\* the filters of moderation_handler: F.text, IsGroupChat(), ~IsAdmin()
ModerationFilter(u, c, x) == x # <<>> /\ IsGroupChat(c) /\ ~IsAdmin(u)

\* aiogram's Command(name): the first token of the text is "/" + name
\* str.partition("@"): the part before the first "@" (all of it without one)
BeforeAt(tok) ==
    IF \E i \in 1..Len(tok) : tok[i] = "@"
    THEN SubSeq(tok, 1, (CHOOSE i \in 1..Len(tok) :
                           tok[i] = "@" /\ \A j \in 1..(i - 1) : tok[j] # "@") - 1)
    ELSE tok
\* str.partition("@"): the part after the first "@" (empty without one)
AfterAt(tok) ==
    IF \E i \in 1..Len(tok) : tok[i] = "@"
    THEN SubSeq(tok, (CHOOSE i \in 1..Len(tok) :
                        tok[i] = "@" /\ \A j \in 1..(i - 1) : tok[j] # "@") + 1,
                Len(tok))
    ELSE <<>>

\* (await bot.me()).username
BotUsername == <<"t","h","e","b","o","t">>

\* aiogram's Command(name): the first token of the text is the prefix "/",
\* the command (compared with case) and, after an "@", a mention, which must
\* be the bot's username (compared without case); a text without a token
\* is no command
CommandIs(x, name) ==
    LET full == FirstToken(x)
    IN  /\ full # <<>>
        /\ Head(full) = "/"
        /\ BeforeAt(Tail(full)) = name
        /\ \/ AfterAt(Tail(full)) = <<>>
           \/ Lower(AfterAt(Tail(full))) = Lower(BotUsername)

N_reload == <<"r","e","l","o","a","d">>
N_addword == <<"a","d","d","w","o","r","d">>
N_removeword == <<"r","e","m","o","v","e","w","o","r","d">>
N_stats == <<"s","t","a","t","s">>
N_event == <<"e","v","e","n","t">>
N_events == <<"e","v","e","n","t","s">>
N_unwarn == <<"u","n","w","a","r","n">>
N_userinfo == <<"u","s","e","r","i","n","f","o">>

\* the dispatcher: the first registered handler whose filters pass
Route(u, c, x) ==
    CASE CommandIs(x, N_reload) /\ IsProtectedAdmin(u, c) -> "cmd_reload"
      [] CommandIs(x, N_addword) /\ IsProtectedAdmin(u, c) -> "cmd_add_word"
      [] CommandIs(x, N_removeword) /\ IsProtectedAdmin(u, c) -> "cmd_remove_word"
      [] CommandIs(x, N_stats) /\ IsProtectedAdmin(u, c) -> "cmd_stats"
      [] CommandIs(x, N_event) /\ IsAdmin(u) /\ IsGroupChat(c) -> "cmd_create_event"
      [] CommandIs(x, N_events) /\ IsGroupChat(c) -> "cmd_list_events"
      [] CommandIs(x, N_unwarn) /\ IsAdmin(u) /\ IsGroupChat(c) -> "cmd_unwarn"
      [] CommandIs(x, N_userinfo) /\ IsAdmin(u) /\ IsGroupChat(c) -> "cmd_userinfo"
      [] ModerationFilter(u, c, x) -> "moderation_handler"
      [] OTHER -> None

\* AddWordCommandHandler / RemoveWordCommandHandler:
\*   word = message.text.replace("/" + name, "").strip().lower()
CommandWord(name, x) == Lower(Strip(RemoveAll(<<"/">> \o name, x)))
WordArg(h, x) ==
    IF h = "cmd_add_word" THEN CommandWord(N_addword, x)
    ELSE CommandWord(N_removeword, x)

\* CreateEventCommandHandler: message.text.replace("/event", "").strip()
EventArg(x) == Strip(RemoveAll(<<"/">> \o N_event, x))

\* mutant: only a missing reply target is refused
UnwarnRefused_NoTargetOnly(r) == r = NoUser
\* UnwarnCommandHandler: no reply target, an administrator or a bot
UnwarnRefused(r) == r = NoUser \/ r \in ADMIN_IDS \/ r \in BotIds

\* mutant: the decrement without the clamp
Decrement_NoClamp(c) == c - 1
\* remove_warning: new_count = max(0, current_count - 1)
Decrement(c) == IF c - 1 > 0 THEN c - 1 ELSE 0

\* db.get_bad_words(): [item["word"].lower() for item in res.data]
LowerAll(table) == [i \in 1..Len(table) |-> Lower(table[i])]

\* mutant: a built-in list stands in for an empty fetched list
ReplaceSnapshot_Default(old, new) ==
    IF new = <<>> THEN <<<<"b","a","d">>>> ELSE new
\* reload: self._words = <the fetched list>
ReplaceSnapshot(old, new) == new

\* mutant: reload does not wait for the lock
CanAcquire_NoLock == TRUE
\* async with self._lock: the lock is free
CanAcquire == lock = 0

\* asyncio.Lock.acquire() of a task that reaches reload: a free lock nobody
\* waits for is taken without suspending and the task runs on to await
\* db.get_bad_words(); otherwise the task suspends as the last waiter
ReloadPc == IF CanAcquire /\ waiters = <<>> THEN "fetch" ELSE "lock"
EnterReload(t) ==
    /\ lock' = IF ReloadPc = "fetch" THEN t ELSE lock
    /\ waiters' = IF ReloadPc = "fetch" THEN waiters ELSE Append(waiters, t)

\* apply_sanction's exemption: user.id in config.ADMIN_IDS
Exempt(u) == u \in ADMIN_IDS

\* _get_warning_count's answer when the select succeeds
StoredCount(u) == IF u \in rows THEN warning_count[u] ELSE 0

\* add_warning: new_count = current_count + 1
NewCount(c) == c + 1

\* mutant: the threshold compared with > instead of >=
BanBranch_Strict(w) == w > MAX_WARNINGS
\* apply_sanction: warn_count >= config.MAX_WARNINGS
BanBranch(w) == w >= MAX_WARNINGS

\* mutant: the counter is reset whether or not the ban went through
AfterBan_ResetAnyway(o) ==
    CASE o = "ok" -> "confirm" [] OTHER -> "reset"
\* mutant: the ban notice is sent whether or not the ban went through
AfterBan_ConfirmAnyway(o) == "confirm"
\* where apply_sanction goes after bot.ban_chat_member
AfterBan(o) ==
    CASE o = "ok" -> "confirm" [] o = "bad_request" -> "diag" [] OTHER -> "err"

\* where apply_sanction goes after the ban notice's bot.send_message
AfterConfirm(o) ==
    CASE o = "ok" -> "reset" [] o = "bad_request" -> "diag" [] OTHER -> "err"

\* where apply_sanction goes after the warning notice's bot.send_message
AfterWarn(o) ==
    CASE o = "ok" -> "done" [] o = "bad_request" -> "diag" [] OTHER -> "err"

\* a failure may be injected while the budget lasts
CanFail == faults < MaxFaults
Fault(failed) ==
    /\ failed => CanFail
    /\ faults' = IF failed THEN faults + 1 ELSE faults

Did(t, a) == acts' = [acts EXCEPT ![t] = @ \cup {a}]
Goto(t, l) == pc' = [pc EXCEPT ![t] = l]

\* ---------------------------------------------- the escalation cycle
\* Dispatch of one text message to moderation_handler, then check_moderation
\* and apply_sanction up to its first await (message.delete()).  Task t takes
\* the message; tasks are taken in order.  ActivityMiddleware calls
\* db.upsert_user without awaiting it: the coroutine never runs.  The message
\* is a reply to a message of user r, or to none (NoUser).  Each command
\* handler runs up to its first await: the rejection of an input it refuses
\* ("usage"), its store call, or, for /reload, the select of the reload
\* when the lock is free and the wait for the lock when it is not.
ReceiveReply(t, u, c, x, r) ==
    /\ started
    /\ pc[t] = "idle"
    /\ IF t = 1 THEN TRUE ELSE pc[t - 1] # "idle"
    /\ sender' = [sender EXCEPT ![t] = u]
    /\ msgChat' = [msgChat EXCEPT ![t] = c]
    /\ msgText' = [msgText EXCEPT ![t] = x]
    /\ target' = [target EXCEPT ![t] = r]
    /\ LET h == Route(u, c, x)
           v == IF h = "moderation_handler" THEN Detect(words, x) ELSE None
       IN  /\ handler' = [handler EXCEPT ![t] = h]
           /\ reason' = [reason EXCEPT ![t] = v]
           /\ IF h = "cmd_reload" THEN EnterReload(t) ELSE UNCHANGED <<lock, waiters>>
           /\ Goto(t, CASE h = "moderation_handler" ->
                            IF v # None /\ ~Exempt(u) THEN "delete" ELSE "done"
                        [] h = "cmd_reload" -> ReloadPc
                        [] h \in {"cmd_add_word", "cmd_remove_word"} ->
                            IF WordArg(h, x) = <<>> THEN "usage" ELSE "store"
                        [] h = "cmd_unwarn" ->
                            IF UnwarnRefused(r) THEN "usage" ELSE "unwarn_read"
                        [] h = "cmd_userinfo" ->
                            IF r = NoUser THEN "usage" ELSE "user_stats"
                        [] h = "cmd_create_event" ->
                            IF EventArg(x) = <<>> THEN "usage" ELSE "create_event"
                        [] h = "cmd_stats" -> "top_warned"
                        [] h = "cmd_list_events" -> "active_events"
                        [] OTHER -> "done")
    /\ UNCHANGED <<storeVars, bad_words, words, fetched, count, lastFetch,
                   committed, started, mainPc, cur, warn, acts, faults>>

\* a message that is not a reply
Receive(t, u, c, x) == ReceiveReply(t, u, c, x, NoUser)

\* await message.delete(): TelegramBadRequest is logged, another exception
\* leaves apply_sanction
DeleteMessage(t, o) ==
    /\ pc[t] = "delete"
    /\ Fault(o # "ok")
    /\ Did(t, CASE o = "ok" -> "deleted" [] o = "bad_request" -> "delete_failed"
                 [] OTHER -> "delete_error")
    /\ Goto(t, IF o = "error" THEN "done" ELSE "read")
    /\ UNCHANGED <<storeVars, cacheVars, msgVars, cur, warn>>

\* add_warning: current_count = await self._get_warning_count(user_id);
\* a failed select is logged and answered as 0
ReadCount(t, ok) ==
    /\ pc[t] = "read"
    /\ Fault(~ok)
    /\ cur' = [cur EXCEPT ![t] = IF ok THEN StoredCount(sender[t]) ELSE 0]
    /\ acts' = IF ok THEN acts ELSE [acts EXCEPT ![t] = @ \cup {"read_failed"}]
    /\ Goto(t, "write")
    /\ UNCHANGED <<storeVars, cacheVars, msgVars, warn>>

\* add_warning: the upsert of new_count, its return value, then
\* apply_sanction's comparison with MAX_WARNINGS
WriteCount(t, ok) ==
    /\ pc[t] = "write"
    /\ Fault(~ok)
    /\ LET u == sender[t]
           w == IF ok THEN NewCount(cur[t]) ELSE cur[t]
       IN  /\ warn' = [warn EXCEPT ![t] = w]
           /\ IF ok
              THEN /\ rows' = rows \cup {u}
                   /\ warning_count' = [warning_count EXCEPT ![u] = NewCount(cur[t])]
              ELSE UNCHANGED storeVars
           /\ Did(t, IF ok THEN "inc" ELSE "inc_failed")
           /\ Goto(t, IF BanBranch(w) THEN "ban" ELSE "warn")
    /\ UNCHANGED <<cacheVars, msgVars, cur>>

\* await bot.ban_chat_member(...)
Ban(t, o) ==
    /\ pc[t] = "ban"
    /\ Fault(o # "ok")
    /\ Did(t, IF o = "ok" THEN "ban_ok" ELSE "ban_failed")
    /\ Goto(t, AfterBan(o))
    /\ UNCHANGED <<storeVars, cacheVars, msgVars, cur, warn>>

\* await bot.send_message(... "был забанен" ...)
Confirm(t, o) ==
    /\ pc[t] = "confirm"
    /\ Fault(o # "ok")
    /\ Did(t, IF o = "ok" THEN "confirm_sent" ELSE "confirm_failed")
    /\ Goto(t, AfterConfirm(o))
    /\ UNCHANGED <<storeVars, cacheVars, msgVars, cur, warn>>

\* await db.reset_warnings(user.id): an update of the user's row; a failure
\* is logged and swallowed
Reset(t, ok) ==
    /\ pc[t] = "reset"
    /\ Fault(~ok)
    /\ LET u == sender[t]
       IN  IF ok /\ u \in rows
           THEN /\ warning_count' = [warning_count EXCEPT ![u] = 0]
                /\ UNCHANGED rows
           ELSE UNCHANGED storeVars
    /\ Did(t, IF ok THEN "reset" ELSE "reset_failed")
    /\ Goto(t, "done")
    /\ UNCHANGED <<cacheVars, msgVars, cur, warn>>

\* await bot.send_message(... "Предупреждение n/MAX" ...)
Warn(t, o) ==
    /\ pc[t] = "warn"
    /\ Fault(o # "ok")
    /\ Did(t, IF o = "ok" THEN "warn_sent" ELSE "warn_failed")
    /\ Goto(t, AfterWarn(o))
    /\ UNCHANGED <<storeVars, cacheVars, msgVars, cur, warn>>

\* except TelegramBadRequest: await bot.send_message("Не удалось применить
\* санкции ..."); an exception of this send leaves apply_sanction
Diag(t, ok) ==
    /\ pc[t] = "diag"
    /\ Fault(~ok)
    /\ Did(t, IF ok THEN "diag_sent" ELSE "diag_failed")
    /\ Goto(t, "done")
    /\ UNCHANGED <<storeVars, cacheVars, msgVars, cur, warn>>

\* except Exception: await bot.send_message("Ошибка при применении санкций")
Err(t, ok) ==
    /\ pc[t] = "err"
    /\ Fault(~ok)
    /\ Did(t, IF ok THEN "err_sent" ELSE "err_failed")
    /\ Goto(t, "done")
    /\ UNCHANGED <<storeVars, cacheVars, msgVars, cur, warn>>

\* no handler task has started
TasksIdle(T) ==
    /\ pc = [t \in T |-> "idle"]
    /\ handler = [t \in T |-> None]
    /\ fetched = [t \in T |-> <<>>]
    /\ count = [t \in T |-> 0]
    /\ lock = 0
    /\ waiters = <<>>
    /\ sender = [t \in T |-> 0]
    /\ msgChat = [t \in T |-> None]
    /\ msgText = [t \in T |-> <<>>]
    /\ target = [t \in T |-> NoUser]
    /\ reason = [t \in T |-> None]
    /\ cur = [t \in T |-> 0]
    /\ warn = [t \in T |-> 0]
    /\ acts = [t \in T |-> {}]
    /\ faults = 0

\* main() has loaded the cache from a table that holds "spam"
CacheLoaded ==
    /\ bad_words = <<W_spam>>
    /\ words = <<W_spam>>
    /\ lastFetch = <<W_spam>>
    /\ committed = {W_spam}
    /\ started = TRUE
    /\ mainPc = "polling"

\* the persisted counts a run may start from
InitCounts == 0..MAX_WARNINGS

Init ==
    /\ rows \in SUBSET (Users \ EnvAdminIds)
    /\ warning_count \in [Users -> InitCounts]
    /\ \A u \in Users : (u \notin rows \/ u \in EnvAdminIds) => warning_count[u] = 0
    /\ CacheLoaded
    /\ TasksIdle(Tasks)

Next ==
    \/ \E t \in Tasks, m \in Inbox : Receive(t, m.from, m.chat, m.text)
    \/ \E t \in Tasks, o \in TgOutcomes : DeleteMessage(t, o)
    \/ \E t \in Tasks, ok \in BOOLEAN : ReadCount(t, ok)
    \/ \E t \in Tasks, ok \in BOOLEAN : WriteCount(t, ok)
    \/ \E t \in Tasks, o \in TgOutcomes : Ban(t, o)
    \/ \E t \in Tasks, o \in TgOutcomes : Confirm(t, o)
    \/ \E t \in Tasks, ok \in BOOLEAN : Reset(t, ok)
    \/ \E t \in Tasks, o \in TgOutcomes : Warn(t, o)
    \/ \E t \in Tasks, ok \in BOOLEAN : Diag(t, ok)
    \/ \E t \in Tasks, ok \in BOOLEAN : Err(t, ok)

Spec == Init /\ [][Next]_vars

\* ------------------------------------------------------ the word cache
\* main(): count = await bad_words_cache.reload(), then the list of
\* types.BotCommand(name, description), up to await bot.set_my_commands.
\* get_bad_words logs a failed select and answers [], so reload never raises.
\* The commands are built with positional arguments: where the library's
\* types take keyword arguments only the constructor raises TypeError,
\* outside any try, and main() ends before any Telegram call.
Startup(ok, positional) ==
    /\ mainPc = "reload"
    /\ Fault(~ok)
    /\ LET got == IF ok THEN LowerAll(bad_words) ELSE <<>>
       IN  /\ words' = ReplaceSnapshot(words, got)
           /\ lastFetch' = got
    /\ mainPc' = IF positional THEN "set_my_commands" ELSE "raised"
    /\ UNCHANGED <<storeVars, bad_words, lock, waiters, fetched, count, committed,
                   started, taskVars>>

\* main(): await bot.set_my_commands(commands); an exception is logged and
\* main() goes on
SetMyCommands(ok) ==
    /\ mainPc = "set_my_commands"
    /\ Fault(~ok)
    /\ mainPc' = "delete_webhook"
    /\ UNCHANGED <<storeVars, bad_words, words, lock, waiters, fetched, count,
                   lastFetch, committed, started, taskVars>>

\* main(): await bot.delete_webhook(drop_pending_updates=True), outside any
\* try: an exception leaves main() and polling never starts; otherwise
\* main() goes on to await dp.start_polling(bot)
DeleteWebhook(ok) ==
    /\ mainPc = "delete_webhook"
    /\ Fault(~ok)
    /\ mainPc' = IF ok THEN "polling" ELSE "raised"
    /\ started' = ok
    /\ UNCHANGED <<storeVars, bad_words, words, lock, waiters, fetched, count,
                   lastFetch, committed, taskVars>>

\* a handler refuses its input (/addword, /removeword or /event without an
\* argument, /unwarn or /userinfo without a target, /unwarn of an administrator
\* or a bot): await message.answer(<the rejection>), then return
Usage(t, ok) ==
    /\ pc[t] = "usage"
    /\ Fault(~ok)
    /\ Did(t, IF ok THEN "said_usage" ELSE "say_failed")
    /\ Goto(t, "done")
    /\ UNCHANGED <<storeVars, cacheVars, msgVars, cur, warn>>

\* mutant: a stored word is counted as a violation of its sender
AfterStore_Count(ok) == IF ok THEN "write" ELSE "answer"
\* mutant: the cache is reloaded whether or not the store call went through
AfterStore_ReloadAnyway(ok) == "lock"
\* where the add-word and remove-word handlers go after the store call:
\* the reload ("lock") when it answered True, the failure notice when False
AfterStore(ok) == IF ok THEN "lock" ELSE "answer"

\* await db.add_bad_word(word) / await db.remove_bad_word(word): True when
\* the statement ran, False when it raised.  Whether the table refuses a word
\* it already holds is the schema's choice: such an insert may raise or add
\* a second row.  The statement runs in a worker thread
\* (asyncio.to_thread): this step is its execution; the handler is resumed
\* with the result in a later step (StoreReturned when it goes on to reload).
StoreWord(t, ok) ==
    /\ pc[t] = "store"
    /\ LET w == Lower(WordArg(handler[t], msgText[t]))
           dup == /\ handler[t] = "cmd_add_word"
                  /\ \E i \in 1..Len(bad_words) : bad_words[i] = w
       IN  /\ Fault(~ok /\ ~dup)
           /\ bad_words' =
                 IF ~ok THEN bad_words
                 ELSE IF handler[t] = "cmd_add_word" THEN Append(bad_words, w)
                 ELSE SelectSeq(bad_words, LAMBDA b : b # w)
           /\ committed' = committed \cup {bad_words'[i] : i \in 1..Len(bad_words')}
           /\ Did(t, IF ok THEN "stored" ELSE "store_failed")
           /\ Goto(t, IF AfterStore(ok) = "lock" THEN "stored" ELSE AfterStore(ok))
    /\ UNCHANGED <<storeVars, words, lock, waiters, fetched, count, lastFetch,
                   started, mainPc, msgVars, cur, warn>>

\* the handler is resumed with True from db.add_bad_word / db.remove_bad_word
\* and runs on into await bad_words_cache.reload(), up to its first await
\* there
StoreReturned(t) ==
    /\ pc[t] = "stored"
    /\ EnterReload(t)
    /\ Goto(t, ReloadPc)
    /\ UNCHANGED <<storeVars, bad_words, words, fetched, count, lastFetch,
                   committed, started, mainPc, msgVars, cur, warn, acts, faults>>

\* reload: async with self._lock, for a task that had to wait: release()
\* wakes the first waiter, which takes the lock when it resumes and runs on
\* to await db.get_bad_words()
Acquire(t) ==
    /\ pc[t] = "lock"
    /\ CanAcquire
    /\ waiters # <<>>
    /\ Head(waiters) = t
    /\ lock' = t
    /\ waiters' = Tail(waiters)
    /\ Goto(t, "fetch")
    /\ UNCHANGED <<storeVars, bad_words, words, fetched, count, lastFetch,
                   committed, started, mainPc, msgVars, cur, warn, acts, faults>>

\* reload: await db.get_bad_words(); a failed select is logged and answered
\* as the empty list
Fetch(t, ok) ==
    /\ pc[t] = "fetch"
    /\ Fault(~ok)
    /\ LET got == IF ok THEN LowerAll(bad_words) ELSE <<>>
       IN  /\ fetched' = [fetched EXCEPT ![t] = got]
           /\ lastFetch' = got
    /\ acts' = IF ok THEN acts ELSE [acts EXCEPT ![t] = @ \cup {"fetch_failed"}]
    /\ Goto(t, "assign")
    /\ UNCHANGED <<storeVars, bad_words, words, lock, waiters, count, committed,
                   started, mainPc, msgVars, cur, warn>>

\* reload: self._words = ...; count = len(self._words); the lock is released
\* and count returned to the handler
Assign(t) ==
    /\ pc[t] = "assign"
    /\ words' = ReplaceSnapshot(words, fetched[t])
    /\ count' = [count EXCEPT ![t] = Len(words')]
    /\ lock' = IF lock = t THEN 0 ELSE lock
    /\ Did(t, "reloaded")
    /\ Goto(t, "answer")
    /\ UNCHANGED <<storeVars, bad_words, waiters, fetched, lastFetch, committed,
                   started, mainPc, msgVars, cur, warn, faults>>

\* a store call of a report handler: the tables it reads or writes (users
\* for reading, events, event_participants) are not part of the state; an
\* exception is logged and swallowed by the client, which answers an empty
\* result
StoreCall(t, at, ok, next) ==
    /\ pc[t] = at
    /\ Fault(~ok)
    /\ acts' = IF ok THEN acts ELSE [acts EXCEPT ![t] = @ \cup {"query_failed"}]
    /\ Goto(t, next)
    /\ UNCHANGED <<storeVars, cacheVars, msgVars, cur, warn>>

\* StatsCommandHandler: top_users = await db.get_top_warned_users(limit=5)
GetTopWarnedUsers(t, ok) == StoreCall(t, "top_warned", ok, "answer")

\* UserInfoCommandHandler: stats = await db.get_user_stats(target_user.id)
GetUserStats(t, ok) == StoreCall(t, "user_stats", ok, "answer")

\* CreateEventCommandHandler: event_id = await db.create_event(...)
CreateEvent(t, ok) == StoreCall(t, "create_event", ok, "answer")

\* ListEventsCommandHandler: events = await db.get_active_events(); with no
\* event (or a failed select) the handler answers, otherwise it reads the
\* participants of the first event
GetActiveEvents(t, ok, some) ==
    StoreCall(t, "active_events", ok, IF ok /\ some THEN "participants" ELSE "answer")

\* ListEventsCommandHandler: participants = await
\* db.get_event_participants(event_id), once for each event of the list
GetEventParticipants(t, ok, more) ==
    StoreCall(t, "participants", ok, IF more THEN "participants" ELSE "answer")

\* the handler's await message.answer(...) or message.answer_poll(...) inside
\* its try block: the success notice after a reload or a remove_warning, the
\* failure notice after a store call that answered False, the report of
\* /stats, /events and /userinfo, the poll of /event; an exception of the
\* send goes to except
Answer(t, ok) ==
    /\ pc[t] = "answer"
    /\ Fault(~ok)
    /\ Did(t, IF ~ok THEN "say_failed"
              ELSE IF "store_failed" \in acts[t] THEN "said_failed"
              ELSE "said_ok")
    /\ Goto(t, IF ok THEN "done" ELSE "answer_err")
    /\ UNCHANGED <<storeVars, cacheVars, msgVars, cur, warn>>

\* except Exception: await message.answer("Ошибка ...")
AnswerErr(t, ok) ==
    /\ pc[t] = "answer_err"
    /\ Fault(~ok)
    /\ Did(t, IF ok THEN "said_error" ELSE "say_error_failed")
    /\ Goto(t, "done")
    /\ UNCHANGED <<storeVars, cacheVars, msgVars, cur, warn>>

\* remove_warning: current_count = await self._get_warning_count(user_id);
\* a failed select is logged and answered as 0
UnwarnRead(t, ok) ==
    /\ pc[t] = "unwarn_read"
    /\ Fault(~ok)
    /\ cur' = [cur EXCEPT ![t] = IF ok THEN StoredCount(target[t]) ELSE 0]
    /\ acts' = IF ok THEN acts ELSE [acts EXCEPT ![t] = @ \cup {"read_failed"}]
    /\ Goto(t, "unwarn_write")
    /\ UNCHANGED <<storeVars, cacheVars, msgVars, warn>>

\* remove_warning: the update of the user's row to new_count (no row, nothing
\* updated) and the return value: new_count, or current_count when the update
\* raised
UnwarnWrite(t, ok) ==
    /\ pc[t] = "unwarn_write"
    /\ Fault(~ok)
    /\ LET u == target[t]
           n == Decrement(cur[t])
       IN  /\ warn' = [warn EXCEPT ![t] = IF ok THEN n ELSE cur[t]]
           /\ IF ok /\ u \in rows
              THEN /\ warning_count' = [warning_count EXCEPT ![u] = n]
                   /\ UNCHANGED rows
              ELSE UNCHANGED storeVars
    /\ Did(t, IF ok THEN "dec" ELSE "dec_failed")
    /\ Goto(t, "answer")
    /\ UNCHANGED <<cacheVars, msgVars, cur>>

X_reload == <<"/">> \o N_reload
X_addword_Ads == <<"/">> \o N_addword \o <<" ","A","d","s">>
X_removeword_spam == <<"/">> \o N_removeword \o <<" ","s","p","a","m">>
X_addword_blank == <<"/">> \o N_addword \o <<" ">>
W_ads == <<"a","d","s">>
T_buy_ADS == <<"b","u","y"," ","A","D","S"," ","n","o","w">>

\* the messages the environment sends while the word cache is checked
CacheInbox ==
    {Msg(1, "private", X_reload), Msg(1, "private", X_addword_Ads),
     Msg(1, "private", X_removeword_spam), Msg(1, "private", X_addword_blank),
     Msg(1, "group", X_reload), Msg(2, "private", X_reload)}

\* after construction: the cache is empty, main() has not reloaded yet
InitCache ==
    /\ rows = {}
    /\ warning_count = [u \in Users |-> 0]
    /\ bad_words \in {<<>>, <<W_spam>>, <<W_spam, W_ads>>}
    /\ words = <<>>
    /\ lastFetch = <<>>
    /\ committed = {bad_words[i] : i \in 1..Len(bad_words)}
    /\ started = FALSE
    /\ mainPc = "reload"
    /\ TasksIdle(Tasks)

NextCache ==
    \/ \E ok, positional \in BOOLEAN : Startup(ok, positional)
    \/ \E ok \in BOOLEAN : SetMyCommands(ok)
    \/ \E ok \in BOOLEAN : DeleteWebhook(ok)
    \/ \E t \in Tasks, m \in CacheInbox : Receive(t, m.from, m.chat, m.text)
    \/ \E t \in Tasks, ok \in BOOLEAN : Usage(t, ok)
    \/ \E t \in Tasks, ok \in BOOLEAN : StoreWord(t, ok)
    \/ \E t \in Tasks : StoreReturned(t)
    \/ \E t \in Tasks : Acquire(t)
    \/ \E t \in Tasks, ok \in BOOLEAN : Fetch(t, ok)
    \/ \E t \in Tasks : Assign(t)
    \/ \E t \in Tasks, ok \in BOOLEAN : Answer(t, ok)
    \/ \E t \in Tasks, ok \in BOOLEAN : AnswerErr(t, ok)

SpecCache == InitCache /\ [][NextCache]_vars

\* ------------------------------------------------------ the race scenario
\* NumRacers violations of the same user whose count starts at 0, every store
\* and Telegram call succeeding, under every interleaving of the awaits.
Racers == 1..NumRacers
Violator == CHOOSE u \in Users : u \notin EnvAdminIds

InitRace ==
    /\ rows \in {{}, {Violator}}
    /\ warning_count = [u \in Users |-> 0]
    /\ CacheLoaded
    /\ TasksIdle(Racers)

NextRace ==
    \/ \E t \in Racers : Receive(t, Violator, "group", T_Spam)
    \/ \E t \in Racers : DeleteMessage(t, "ok")
    \/ \E t \in Racers : ReadCount(t, TRUE)
    \/ \E t \in Racers : WriteCount(t, TRUE)
    \/ \E t \in Racers : Ban(t, "ok")
    \/ \E t \in Racers : Confirm(t, "ok")
    \/ \E t \in Racers : Reset(t, TRUE)
    \/ \E t \in Racers : Warn(t, "ok")

SpecRace == InitRace /\ [][NextRace]_vars

\* ------------------------------------------- the administrative decrement
X_unwarn == <<"/">> \o N_unwarn

\* whom an /unwarn may be a reply to
ReplyTargets == Users \cup BotIds \cup {NoUser}
\* the administrator who sends the commands
Admin == CHOOSE a \in EnvAdminIds : TRUE

\* violations of one user and /unwarn commands of the administrator, under
\* every interleaving of their awaits; the store calls may fail
NextAdmin ==
    \/ \E t \in Tasks : Receive(t, Violator, "group", T_Spam)
    \/ \E t \in Tasks, r \in ReplyTargets :
          ReceiveReply(t, Admin, "group", X_unwarn, r)
    \/ \E t \in Tasks : DeleteMessage(t, "ok")
    \/ \E t \in Tasks, ok \in BOOLEAN : ReadCount(t, ok)
    \/ \E t \in Tasks, ok \in BOOLEAN : WriteCount(t, ok)
    \/ \E t \in Tasks : Ban(t, "ok")
    \/ \E t \in Tasks : Confirm(t, "ok")
    \/ \E t \in Tasks, ok \in BOOLEAN : Reset(t, ok)
    \/ \E t \in Tasks : Warn(t, "ok")
    \/ \E t \in Tasks : Usage(t, TRUE)
    \/ \E t \in Tasks, ok \in BOOLEAN : UnwarnRead(t, ok)
    \/ \E t \in Tasks, ok \in BOOLEAN : UnwarnWrite(t, ok)
    \/ \E t \in Tasks : Answer(t, TRUE)

SpecAdmin == Init /\ [][NextAdmin]_vars

\* ------------------------------------- a decrement racing an increment
\* the stored count the scenario starts from: below MAX_WARNINGS - 1, and
\* at least 1 with the default threshold
StartCount == MAX_WARNINGS - 2

InitAdjust ==
    /\ rows = {Violator}
    /\ warning_count = [u \in Users |-> IF u = Violator THEN StartCount ELSE 0]
    /\ CacheLoaded
    /\ TasksIdle(Tasks)

\* violations of the user and /unwarn commands aimed at the user, every
\* store and Telegram call succeeding, under every interleaving of the awaits
NextAdjust ==
    \/ \E t \in Tasks : Receive(t, Violator, "group", T_Spam)
    \/ \E t \in Tasks : ReceiveReply(t, Admin, "group", X_unwarn, Violator)
    \/ \E t \in Tasks : DeleteMessage(t, "ok")
    \/ \E t \in Tasks : ReadCount(t, TRUE)
    \/ \E t \in Tasks : WriteCount(t, TRUE)
    \/ \E t \in Tasks : Ban(t, "ok")
    \/ \E t \in Tasks : Confirm(t, "ok")
    \/ \E t \in Tasks : Reset(t, TRUE)
    \/ \E t \in Tasks : Warn(t, "ok")
    \/ \E t \in Tasks : UnwarnRead(t, TRUE)
    \/ \E t \in Tasks : UnwarnWrite(t, TRUE)
    \/ \E t \in Tasks : Answer(t, TRUE)

SpecAdjust == InitAdjust /\ [][NextAdjust]_vars

\* ------------------------------------------------- one message at a time
X_stats == <<"/">> \o N_stats
X_event_party == <<"/">> \o N_event \o <<" ","p","a","r","t","y">>
X_events_url == <<"/">> \o N_events \o <<" ","a",".","i","o">>
X_userinfo == <<"/">> \o N_userinfo
X_removeword_blank == <<"/">> \o N_removeword \o <<" "," ">>
X_events_mention == <<"/">> \o N_events \o <<"@">> \o BotUsername \o <<" ","a",".","i","o">>
X_reload_Mention == <<"/">> \o N_reload \o <<"@","T","h","e","B","o","t">>
X_reload_other == <<"/">> \o N_reload \o <<"@","o","t","h","e","r">>
X_addword_mention == <<"/">> \o N_addword \o <<"@">> \o BotUsername \o <<" ","x">>
X_unwarn_mention == <<"/">> \o N_unwarn \o <<"@">> \o BotUsername
X_addword_KAZINO == <<"/">> \o N_addword \o <<" ">> \o <<"U+041A","U+0410","U+0417","U+0418","U+041D","U+041E">>
X_addword_vt == <<"/">> \o N_addword \o <<" ", "">>
X_addword_nbsp == <<"/">> \o N_addword \o <<" ", "U+00A0">>

\* every text, plain or command, from every user in every kind of chat
AnyInbox ==
    {Msg(u, c, x) : u \in Users, c \in ChatTypes,
                    x \in Texts \cup {X_reload, X_addword_Ads, X_removeword_spam,
                                      X_stats, X_event_party, X_events_url,
                                      X_unwarn, X_userinfo, X_addword_blank,
                                      X_removeword_blank, X_events_mention,
                                      X_reload_Mention, X_reload_other,
                                      X_addword_mention, X_unwarn_mention,
                                      X_addword_KAZINO, X_addword_vt,
                                      X_addword_nbsp}}

\* the messages a command handler looks up the reply target of
RepliesTo(x) ==
    IF x \in {X_unwarn, X_userinfo, X_unwarn_mention} THEN ReplyTargets ELSE {NoUser}

\* the dispatcher handles one message, with every handler of the bot: the
\* only task is the first one
Single == {1}

InitOne ==
    /\ rows \in SUBSET (Users \ EnvAdminIds)
    /\ warning_count \in [Users -> InitCounts]
    /\ \A u \in Users : (u \notin rows \/ u \in EnvAdminIds) => warning_count[u] = 0
    /\ CacheLoaded
    /\ TasksIdle(Single)

NextOne ==
    \/ \E t \in Single, m \in AnyInbox :
          \E r \in RepliesTo(m.text) : ReceiveReply(t, m.from, m.chat, m.text, r)
    \/ \E t \in Single, o \in TgOutcomes : DeleteMessage(t, o)
    \/ \E t \in Single, ok \in BOOLEAN : ReadCount(t, ok)
    \/ \E t \in Single, ok \in BOOLEAN : WriteCount(t, ok)
    \/ \E t \in Single, o \in TgOutcomes : Ban(t, o)
    \/ \E t \in Single, o \in TgOutcomes : Confirm(t, o)
    \/ \E t \in Single, ok \in BOOLEAN : Reset(t, ok)
    \/ \E t \in Single, o \in TgOutcomes : Warn(t, o)
    \/ \E t \in Single, ok \in BOOLEAN : Diag(t, ok)
    \/ \E t \in Single, ok \in BOOLEAN : Err(t, ok)
    \/ \E t \in Single, ok \in BOOLEAN : Usage(t, ok)
    \/ \E t \in Single, ok \in BOOLEAN : StoreWord(t, ok)
    \/ \E t \in Single : StoreReturned(t)
    \/ \E t \in Single, ok \in BOOLEAN : Fetch(t, ok)
    \/ \E t \in Single : Assign(t)
    \/ \E t \in Single, ok \in BOOLEAN : GetTopWarnedUsers(t, ok)
    \/ \E t \in Single, ok \in BOOLEAN : GetUserStats(t, ok)
    \/ \E t \in Single, ok \in BOOLEAN : CreateEvent(t, ok)
    \/ \E t \in Single, ok, some \in BOOLEAN : GetActiveEvents(t, ok, some)
    \/ \E t \in Single, ok, more \in BOOLEAN : GetEventParticipants(t, ok, more)
    \/ \E t \in Single, ok \in BOOLEAN : Answer(t, ok)
    \/ \E t \in Single, ok \in BOOLEAN : AnswerErr(t, ok)
    \/ \E t \in Single, ok \in BOOLEAN : UnwarnRead(t, ok)
    \/ \E t \in Single, ok \in BOOLEAN : UnwarnWrite(t, ok)

SpecOne == InitOne /\ [][NextOne]_vars

\* ------------------------------------------- reloads and their readers
\* NumSwap messages handled concurrently: reloads (/reload, and /addword,
\* which reloads after its store call) and group messages that
\* check_moderation looks up in the snapshot.  A select of a reload may
\* fail; every other store and Telegram call succeeds.  The sender of the
\* group messages has no warning yet, or is one warning short of the ban.
SwapTasks == 1..NumSwap

SwapInbox ==
    {Msg(Admin, "private", X_reload), Msg(Admin, "private", X_addword_Ads),
     Msg(Violator, "group", T_buy_ADS)}

InitSwap ==
    /\ \/ rows = {} /\ warning_count = [u \in Users |-> 0]
       \/ /\ rows = {Violator}
          /\ warning_count = [u \in Users |->
                                IF u = Violator THEN MAX_WARNINGS - 1 ELSE 0]
    /\ CacheLoaded
    /\ TasksIdle(SwapTasks)

NextSwap ==
    \/ \E t \in SwapTasks, m \in SwapInbox : Receive(t, m.from, m.chat, m.text)
    \/ \E t \in SwapTasks : StoreWord(t, TRUE)
    \/ \E t \in SwapTasks : StoreReturned(t)
    \/ \E t \in SwapTasks : Acquire(t)
    \/ \E t \in SwapTasks, ok \in BOOLEAN : Fetch(t, ok)
    \/ \E t \in SwapTasks : Assign(t)
    \/ \E t \in SwapTasks : Answer(t, TRUE)
    \/ \E t \in SwapTasks : DeleteMessage(t, "ok")
    \/ \E t \in SwapTasks : ReadCount(t, TRUE)
    \/ \E t \in SwapTasks : WriteCount(t, TRUE)
    \/ \E t \in SwapTasks : Ban(t, "ok")
    \/ \E t \in SwapTasks : Confirm(t, "ok")
    \/ \E t \in SwapTasks : Reset(t, TRUE)
    \/ \E t \in SwapTasks : Warn(t, "ok")

SpecSwap == InitSwap /\ [][NextSwap]_vars

\* ------------------------------------------------- the vocabulary check
W_class == <<"c","l","a","s","s">>
T_classic == <<"c","l","a","s","s","i","c">>
T_class_act == <<"c","l","a","s","s"," ","a","c","t">>
T_CLASS_act == <<"C","L","A","S","S"," ","a","c","t">>
T_a_Class == <<"a"," ","C","l","a","s","s">>
T_subclass == <<"s","u","b","c","l","a","s","s">>
T_my_class == <<"m","y","_","c","l","a","s","s">>
T_class_bang == <<"c","l","a","s","s","!">>
T_class9 == <<"c","l","a","s","s","9">>
W_kazino == <<"U+043A","U+0430","U+0437","U+0438","U+043D","U+043E">>
T_v_kazino == <<"U+0441","U+0445","U+043E","U+0434","U+0438","U+043C"," ","U+0432"," ","U+043A","U+0430","U+0437","U+0438","U+043D","U+043E">>
T_v_KAZINO == <<"U+0441","U+0445","U+043E","U+0434","U+0438","U+043C"," ","U+0432"," ","U+041A","U+0410","U+0417","U+0418","U+041D","U+041E">>
T_kazinoshka == <<"U+043A","U+0430","U+0437","U+0438","U+043D","U+043E","U+0448","U+043A","U+0430">>

\* texts without a link, with the cached words inside or at the edge of
\* longer words, next to punctuation, and in capitals
ContainTexts ==
    {T_classic, T_class_act, T_CLASS_act, T_a_Class, T_subclass, T_my_class,
     T_class_bang, T_class9, T_Spam, T_spammer, T_hi, T_buy_ADS,
     T_v_kazino, T_v_KAZINO, T_kazinoshka}

\* the snapshots the cache may hold
Snapshots ==
    {<<>>, <<W_class>>, <<W_spam>>, <<W_ads>>, <<W_class, W_spam>>,
     <<W_spam, W_class>>, <<W_spam, W_ads>>, <<W_class, W_spam, W_ads>>,
     <<W_kazino>>, <<W_kazino, W_spam>>}

\* the cache holds any of the snapshots, whatever the table holds by now
InitContains ==
    /\ rows = {}
    /\ warning_count = [u \in Users |-> 0]
    /\ bad_words \in {<<>>, <<W_class>>}
    /\ words \in Snapshots
    /\ lastFetch = words
    /\ committed = {words[i] : i \in 1..Len(words)}
                     \cup {bad_words[i] : i \in 1..Len(bad_words)}
    /\ started = TRUE
    /\ mainPc = "polling"
    /\ TasksIdle(Single)

\* one group message of a user who is not an administrator, its text checked
\* by check_moderation, and the cycle of a text that holds a cached word
NextContains ==
    \/ \E t \in Single, x \in ContainTexts : Receive(t, Violator, "group", x)
    \/ \E t \in Single : DeleteMessage(t, "ok")
    \/ \E t \in Single : ReadCount(t, TRUE)
    \/ \E t \in Single : WriteCount(t, TRUE)
    \/ \E t \in Single : Warn(t, "ok")

SpecContains == InitContains /\ [][NextContains]_vars

\* ---------------------------------------------------------------- claims
Cycles == {t \in DOMAIN pc : reason[t] # None}
Done(t) == pc[t] = "done"
Alone(t) == \A s \in DOMAIN pc \ {t} : pc[s] = "idle"
BanAttempted(t) == acts[t] \cap {"ban_ok", "ban_failed"} # {}
StoreFaults == {"read_failed", "inc_failed", "reset_failed"}
Diagnostics == {"diag_sent", "diag_failed", "err_sent", "err_failed"}
Confirmations == {"confirm_sent", "confirm_failed"}

\* C1 (as claimed): in the race scenario, as long as no cycle has reset the
\* counter the stored count equals the number of increments made, and once
\* all N >= MAX_WARNINGS cycles are over exactly one ban has been made.
C1_NoLostUpdate ==
    /\ (\A t \in DOMAIN pc : "reset" \notin acts[t]) =>
          StoredCount(Violator) = Cardinality({t \in DOMAIN pc : "inc" \in acts[t]})
    /\ ((\A t \in DOMAIN pc : Done(t)) /\ Cardinality(DOMAIN pc) >= MAX_WARNINGS) =>
          Cardinality({t \in DOMAIN pc : "ban_ok" \in acts[t]}) = 1

\* C2 (as claimed): right after a completed cycle the stored count of its
\* user is within 0..MAX_WARNINGS.
C2_CountInRange ==
    \A t \in Cycles : (Done(t) /\ Alone(t)) =>
        StoredCount(sender[t]) \in 0..MAX_WARNINGS

\* C2 (amended): after a completed cycle the stored count is never negative,
\* and a cycle that stored a count at or above MAX_WARNINGS has made a ban
\* attempt; the count itself may stay above MAX_WARNINGS.
C2_BanAttemptedAtThreshold ==
    \A t \in Cycles : Done(t) =>
        /\ StoredCount(sender[t]) >= 0
        /\ ("inc" \in acts[t] /\ warn[t] >= MAX_WARNINGS) => BanAttempted(t)

C2_Witness ==
    \E t \in Cycles :
        /\ Done(t) /\ "inc" \in acts[t] /\ "ban_failed" \in acts[t]
        /\ StoredCount(sender[t]) = warn[t]
        /\ warn[t] > MAX_WARNINGS

\* C3 (as claimed): a cycle that finds the count at MAX_WARNINGS - 1, with
\* every store call succeeding, attempts a ban, and when the ban succeeds the
\* stored count is 0 when the cycle is over.
C3_ResetAfterSuccessfulBan ==
    \A t \in Cycles :
        ( /\ Done(t) /\ Alone(t)
          /\ "inc" \in acts[t] /\ cur[t] = MAX_WARNINGS - 1
          /\ acts[t] \cap StoreFaults = {} ) =>
        /\ BanAttempted(t)
        /\ "ban_ok" \in acts[t] => StoredCount(sender[t]) = 0

\* C4: a cycle whose ban failed never reaches reset_warnings, and run alone
\* it leaves the stored count at the value it incremented it to.
C4_CounterKeptOnBanFailure ==
    \A t \in Cycles : "ban_failed" \in acts[t] =>
        /\ pc[t] \in {"diag", "err", "done"}
        /\ acts[t] \cap {"reset", "reset_failed"} = {}
        /\ (Alone(t) /\ "inc" \in acts[t]) => StoredCount(sender[t]) = warn[t]

C4_Witness ==
    \E t \in Cycles :
        /\ Done(t) /\ "ban_failed" \in acts[t] /\ "inc" \in acts[t]
        /\ warn[t] >= MAX_WARNINGS
        /\ StoredCount(sender[t]) = warn[t]

\* C5: the ban notice is issued only after the ban succeeded in the same
\* cycle; a cycle whose ban failed issues a diagnostic notice and no ban
\* notice.
C5_NoticeMatchesBan ==
    \A t \in Cycles :
        /\ (pc[t] = "confirm" \/ acts[t] \cap Confirmations # {}) =>
              "ban_ok" \in acts[t]
        /\ ("ban_failed" \in acts[t] /\ Done(t)) =>
              /\ acts[t] \cap Diagnostics # {}
              /\ acts[t] \cap Confirmations = {}

C5_Witness ==
    /\ \E t \in Cycles : Done(t) /\ "ban_failed" \in acts[t] /\ "diag_sent" \in acts[t]
    /\ \E t \in Cycles : Done(t) /\ "ban_ok" \in acts[t] /\ "confirm_sent" \in acts[t]

\* C6 (as claimed): a cycle attempts a ban or a reset only if its own
\* increment was persisted.
C6_ResetOnlyAfterIncrement ==
    \A t \in Cycles :
        (BanAttempted(t) \/ acts[t] \cap {"reset", "reset_failed"} # {}) =>
            "inc" \in acts[t]

\* C7: a message of an administrator never starts a cycle: nothing is
\* deleted, counted, warned or banned for it.
C7_AdminExempt ==
    \A t \in DOMAIN pc : sender[t] \in EnvAdminIds =>
        /\ pc[t] \in {"idle", "done"}
        /\ acts[t] = {}
        /\ reason[t] = None

C7_Witness ==
    /\ \E t \in DOMAIN pc :
          /\ Done(t) /\ sender[t] \in EnvAdminIds /\ msgChat[t] = "group"
          /\ UrlMatch(Lower(msgText[t]))
    /\ \E t \in DOMAIN pc :
          /\ Done(t) /\ sender[t] \in EnvAdminIds /\ msgChat[t] = "group"
          /\ Contains(words, msgText[t])

\* ---------------------------------------------------- claims on the cache
Reloaders == {t \in DOMAIN pc : handler[t] = "cmd_reload"}

\* C8 (as claimed): the step that ends a reload whose fetch failed leaves
\* the snapshot as it was.
C8_FailedReloadKeepsSnapshot ==
    [][\A t \in DOMAIN pc :
         (pc[t] = "assign" /\ pc'[t] # "assign" /\ "fetch_failed" \in acts[t])
            => words' = words]_vars

\* C9 (as claimed): the /reload handler whose fetch failed does not answer
\* with the success notice and its word count.
C9_FailedReloadReported ==
    \A t \in Reloaders :
        (Done(t) /\ "fetch_failed" \in acts[t]) => "said_ok" \notin acts[t]

\* the reload that holds the lock with a fetched list it has not installed yet
Installing(r) == lock = r /\ pc[r] = "assign"

\* C10: the snapshot changes only by one step that installs the whole list
\* a reload fetched; a reader (check_moderation's contains) gets its verdict
\* from one snapshot, which is the list of the latest fetch or, while the
\* reload of that fetch still has to install it, the list before it; and
\* whenever no reload holds the lock the snapshot is the list returned by
\* the latest fetch.
C10_SnapshotSwap ==
    /\ [][words' # words =>
            \/ \E t \in DOMAIN pc :
                   Installing(t) /\ pc'[t] = "answer" /\ words' = fetched[t]
            \/ mainPc = "reload" /\ words' = lastFetch']_vars
    /\ [][\A t \in DOMAIN pc :
            (pc[t] = "idle" /\ handler'[t] = "moderation_handler") =>
                /\ words' = words
                /\ \/ reason'[t] = None /\ ~Contains(words, msgText'[t])
                   \/ reason'[t] = REASON_WORD /\ Contains(words, msgText'[t])
                   \/ reason'[t] = REASON_LINK
                /\ \/ words = lastFetch
                   \/ \E r \in DOMAIN pc : Installing(r) /\ fetched[r] = lastFetch]_vars
    /\ [](lock = 0 => words = lastFetch)

\* a reload holds the lock with a list that differs from the visible
\* snapshot while another reload waits for the lock, and a reader that came
\* after both has got the verdict of the visible list, not of the new one
C10_Witness ==
    \E t1, t2, t3 \in DOMAIN pc :
        /\ Installing(t1) /\ fetched[t1] # words
        /\ words # <<>>
        /\ pc[t2] = "lock" /\ waiters = <<t2>>
        /\ t3 > t1 /\ t3 > t2
        /\ handler[t3] = "moderation_handler"
        /\ reason[t3] = None
        /\ ~Contains(words, msgText[t3])
        /\ Contains(fetched[t1], msgText[t3])

\* C11: every word of the snapshot has been held by the bad_words table at
\* some earlier moment (the words are stored and read in lower case).
C11_CacheWordsWereStored ==
    \A i \in 1..Len(words) : words[i] \in committed

\* the snapshot lags the table: it still holds a word the table has lost
C11_Witness ==
    /\ started
    /\ \E i \in 1..Len(words) :
          /\ words[i] \in committed
          /\ \A j \in 1..Len(bad_words) : bad_words[j] # words[i]
    /\ \E i \in 1..Len(words) : words[i] = W_ads

\* C12 (as claimed): two reloads of a run in which the table is never
\* written install the same list and return the same count.
C12_ReloadIdempotent ==
    \A t1, t2 \in DOMAIN pc :
        ( /\ "reloaded" \in acts[t1] /\ "reloaded" \in acts[t2]
          /\ \A t \in DOMAIN pc : "stored" \notin acts[t] ) =>
        /\ fetched[t1] = fetched[t2]
        /\ count[t1] = count[t2]

\* C13 (as claimed): once /addword Ads, handled alone, has answered with its
\* success notice, the cache finds "ads" in a text that holds it as a whole
\* word in capitals; once /removeword spam has, the cache no longer finds
\* "spam".
C13_AddRemoveVisible ==
    \A t \in DOMAIN pc : (Done(t) /\ Alone(t) /\ "said_ok" \in acts[t]) =>
        /\ (handler[t] = "cmd_add_word" /\ WordArg(handler[t], msgText[t]) = W_ads)
              => Contains(words, T_buy_ADS)
        /\ (handler[t] = "cmd_remove_word" /\ WordArg(handler[t], msgText[t]) = W_spam)
              => ~Contains(words, T_Spam)

\* C14: a handler whose add_bad_word / remove_bad_word answered False never
\* enters reload, none of its steps changes the snapshot, and it answers
\* with the failure notice, never with the success notice.
C14_FailedStoreNoReload ==
    /\ [](\A t \in DOMAIN pc : "store_failed" \in acts[t] =>
            /\ pc[t] \in {"answer", "answer_err", "done"}
            /\ lock # t
            /\ acts[t] \cap {"reloaded", "fetch_failed", "said_ok"} = {}
            /\ Done(t) => acts[t] \cap {"said_failed", "say_failed"} # {})
    /\ [][\A t \in DOMAIN pc :
            (pc[t] = "store" /\ "store_failed" \in acts'[t]) => words' = words]_vars

C14_Witness ==
    \E t \in DOMAIN pc :
        /\ Done(t) /\ "store_failed" \in acts[t] /\ "said_failed" \in acts[t]
        /\ handler[t] = "cmd_remove_word"
        /\ words = <<W_spam>>

\* ------------------------------------------------- claims on the dispatch
\* the handlers of the administrative operations
AdminOps ==
    {"cmd_reload", "cmd_add_word", "cmd_remove_word", "cmd_stats", "cmd_unwarn",
     "cmd_userinfo"}

\* C15 (as claimed): a handler of an administrative operation runs only for
\* a message of an administrator in a private chat.
C15_AdminOpsProtected ==
    \A t \in DOMAIN pc : handler[t] \in AdminOps =>
        (IsAdmin(sender[t]) /\ msgChat[t] = "private")

\* C16 (as claimed): every text message of a group chat whose sender is not
\* an administrator is handed to moderation_handler.
C16_GroupTextModerated ==
    \A t \in DOMAIN pc :
        ( /\ pc[t] # "idle" /\ msgText[t] # <<>>
          /\ IsGroupChat(msgChat[t]) /\ ~IsAdmin(sender[t]) ) =>
        handler[t] = "moderation_handler"

\* C17: a moderated message gets the link reason whenever its text matches
\* the link pattern, the vocabulary reason only when it matches no link, and
\* its cycle writes the counter once: after its increment the only change
\* of the stored counts is the reset to 0.
C17_OneReasonLinkFirst ==
    /\ [](\A t \in DOMAIN pc : handler[t] = "moderation_handler" =>
            /\ UrlMatch(Lower(msgText[t])) => reason[t] = REASON_LINK
            /\ reason[t] = REASON_WORD =>
                  (~UrlMatch(Lower(msgText[t])) /\ Contains(words, msgText[t]))
            /\ reason[t] = None =>
                  (~UrlMatch(Lower(msgText[t])) /\ ~Contains(words, msgText[t]))
            /\ "inc" \in acts[t] => pc[t] \notin {"delete", "read", "write"})
    /\ [][\A t \in DOMAIN pc :
            ("inc" \in acts[t] /\ warning_count' # warning_count) =>
                warning_count' = [warning_count EXCEPT ![sender[t]] = 0]]_vars

\* a message with both a link and a forbidden word, sanctioned once for the
\* link
C17_Witness ==
    \E t \in DOMAIN pc :
        /\ Done(t) /\ reason[t] = REASON_LINK
        /\ Contains(words, msgText[t]) /\ UrlMatch(Lower(msgText[t]))
        /\ "inc" \in acts[t] /\ "warn_sent" \in acts[t]
        /\ StoredCount(sender[t]) = cur[t] + 1

\* --------------------------------------------- claims on the side effects
Sanctions == {"warn_sent", "warn_failed", "ban_ok", "ban_failed"}

\* C18 (as claimed): a cycle whose message.delete() failed, and whose store
\* calls all succeeded, still increments the counter and issues the warning
\* or the ban.
C18_DeleteFailureIndependent ==
    \A t \in Cycles :
        ( /\ Done(t)
          /\ acts[t] \cap {"delete_failed", "delete_error"} # {}
          /\ acts[t] \cap StoreFaults = {} ) =>
        /\ "inc" \in acts[t]
        /\ acts[t] \cap Sanctions # {}

\* C19 (as claimed): once every handler has returned, so that nothing is left
\* to run, each user a message was received from has a row in the users
\* table.
C19_UpsertExecuted ==
    (\A t \in DOMAIN pc : Done(t)) =>
        \A t \in DOMAIN pc : sender[t] \notin EnvAdminIds => sender[t] \in rows

\* C20: no stored count and no count a store call returned is ever negative,
\* and a remove_warning that read 0 writes 0.
C20_NeverNegative ==
    /\ \A u \in Users : warning_count[u] >= 0
    /\ \A t \in DOMAIN pc :
          /\ cur[t] >= 0 /\ warn[t] >= 0
          /\ ("dec" \in acts[t] /\ cur[t] = 0) =>
                /\ warn[t] = 0
                /\ Alone(t) => StoredCount(target[t]) = 0

\* an /unwarn of a user whose row holds 0, its update done
C20_Witness ==
    \E t \in DOMAIN pc :
        /\ Done(t) /\ handler[t] = "cmd_unwarn" /\ "dec" \in acts[t]
        /\ cur[t] = 0 /\ target[t] \in rows
        /\ warning_count[target[t]] = 0

\* C21 (as claimed): a cycle in which a store call of add_warning failed
\* issues neither the warning notice nor the ban.
C21_StoreFailureUnsanctioned ==
    \A t \in Cycles : acts[t] \cap {"read_failed", "inc_failed"} # {} =>
        /\ pc[t] \notin {"warn", "ban"}
        /\ acts[t] \cap Sanctions = {}

\* C22 (as claimed): a cycle that got through add_warning attempts the ban
\* exactly when the count it read plus one reaches MAX_WARNINGS, and below
\* the threshold it issues the warning notice, which carries that count.
C22_BanIffThreshold ==
    \A t \in Cycles : (Done(t) /\ acts[t] \cap {"inc", "inc_failed"} # {}) =>
        /\ BanAttempted(t) <=> NewCount(cur[t]) >= MAX_WARNINGS
        /\ NewCount(cur[t]) < MAX_WARNINGS =>
              /\ acts[t] \cap {"warn_sent", "warn_failed"} # {}
              /\ warn[t] = NewCount(cur[t])

\* ----------------------------------------------- claims on the vocabulary
\* the word stands in the text with no letter, digit or underscore right
\* before it or right after it
OccursAsWord(word, text) ==
    \E i \in 1..Len(text) :
        /\ OccursAt(word, text, i)
        /\ (i = 1 \/ ~IsWordChar(text[i - 1]))
        /\ (i + Len(word) > Len(text) \/ ~IsWordChar(text[i + Len(word)]))

\* C23: a text without a link is found to hold forbidden vocabulary exactly
\* when a word of the snapshot stands in the lower-cased text as a whole
\* word: with "class" cached, "classic" is not found and "class act" is
\* (and so for a Cyrillic word, in capitals in the text or followed by more
\* letters); the check reads the snapshot only and leaves the table, the snapshot and
\* the users table as they are.
C23_WholeWordOnly ==
    /\ [](\A t \in DOMAIN pc : pc[t] # "idle" =>
            /\ reason[t] = REASON_WORD <=>
                  \E k \in 1..Len(words) : OccursAsWord(words[k], Lower(msgText[t]))
            /\ (words = <<W_class>> /\ msgText[t] = T_classic) => reason[t] = None
            /\ (words = <<W_class>> /\ msgText[t] = T_class_act) =>
                  reason[t] = REASON_WORD
            /\ (words = <<W_kazino>> /\ msgText[t] = T_v_KAZINO) =>
                  reason[t] = REASON_WORD
            /\ (words = <<W_kazino>> /\ msgText[t] = T_kazinoshka) =>
                  reason[t] = None)
    /\ [][\A t \in DOMAIN pc : (pc[t] = "idle" /\ pc'[t] # "idle") =>
            UNCHANGED <<bad_words, words, rows, warning_count>>]_vars

\* "CLASS act" found with "class" in the snapshot and an empty table
C23_Witness ==
    \E t \in DOMAIN pc :
        /\ Done(t) /\ msgText[t] = T_CLASS_act /\ reason[t] = REASON_WORD
        /\ words = <<W_spam, W_class>> /\ bad_words = <<>>

\* ------------------------------------------------ claims on the counters
\* C24: a stored count changes only in a step of add_warning or
\* reset_warnings of a violation cycle of that user, or of remove_warning of
\* an /unwarn aimed at that user; every other handler and every message
\* without a violation leaves all the counts as they are.
C24_CounterFrame ==
    [][\A u \in Users : warning_count'[u] # warning_count[u] =>
          \E t \in DOMAIN pc :
              /\ pc'[t] # pc[t]
              /\ \/ /\ handler[t] = "moderation_handler" /\ reason[t] # None
                    /\ sender[t] = u /\ pc[t] \in {"write", "reset"}
                 \/ /\ handler[t] = "cmd_unwarn" /\ target[t] = u
                    /\ pc[t] = "unwarn_write"]_vars

\* /removeword has written the table and reloaded the cache, and the count
\* of the user is the one the run began with
C24_Witness ==
    \E t \in DOMAIN pc :
        /\ Done(t) /\ handler[t] = "cmd_remove_word"
        /\ {"stored", "reloaded"} \subseteq acts[t]
        /\ Violator \in rows /\ warning_count[Violator] = MAX_WARNINGS

\* the input the handler refuses: no word after trimming, or an /unwarn with
\* no reply target or aimed at an administrator or a bot
RefusedInput(t) ==
    \/ /\ handler[t] \in {"cmd_add_word", "cmd_remove_word"}
       /\ WordArg(handler[t], msgText[t]) = <<>>
    \/ /\ handler[t] = "cmd_unwarn"
       /\ target[t] \in {NoUser} \cup EnvAdminIds \cup BotIds

\* C25: a handler that refuses its input does nothing but answer with the
\* rejection: no store call, no reload, and none of its steps changes the
\* tables or the snapshot.
C25_RefusedInputNoEffect ==
    /\ [](\A t \in DOMAIN pc : RefusedInput(t) =>
            /\ pc[t] \in {"usage", "done"}
            /\ acts[t] \subseteq {"said_usage", "say_failed"}
            /\ lock # t
            /\ Done(t) => acts[t] # {})
    /\ [][\A t \in DOMAIN pc : (RefusedInput(t) /\ pc'[t] # pc[t]) =>
            UNCHANGED <<rows, warning_count, bad_words, words>>]_vars

\* an /unwarn aimed at a bot, answered with the rejection, the counts
\* untouched
C25_Witness ==
    \E t \in DOMAIN pc :
        /\ Done(t) /\ handler[t] = "cmd_unwarn" /\ target[t] \in BotIds
        /\ "said_usage" \in acts[t]
        /\ Violator \in rows /\ warning_count[Violator] = MAX_WARNINGS

\* C26 (as claimed): the step of add_warning that writes the count of a
\* cycle going on to the warning, not to the ban, never writes a count below
\* the stored one.
C26_CycleNeverLowers ==
    [][\A t \in DOMAIN pc :
         (handler[t] = "moderation_handler" /\ pc[t] = "write" /\ pc'[t] = "warn") =>
            (IF sender[t] \in rows' THEN warning_count'[sender[t]] ELSE 0)
                >= StoredCount(sender[t])]_vars

\* C27 (as claimed): when one violation and one /unwarn of the same user
\* are all that ran, and both are over, the stored count is the one the run
\* started from.
C27_NoLostAdjustment ==
    \A t1, t2 \in DOMAIN pc :
        ( /\ Done(t1) /\ handler[t1] = "moderation_handler"
          /\ Done(t2) /\ handler[t2] = "cmd_unwarn"
          /\ \A t \in DOMAIN pc \ {t1, t2} : pc[t] = "idle" ) =>
        StoredCount(Violator) = StartCount

====
